---- MODULE Spec2Model ----
(***************************************************************************)
(* A model of the financial-advisory chatbot backend (ewfx/aidhp-deep-     *)
(* agents): the LLM provider selector (app/services/llm_service.py), the   *)
(* chat orchestrator (app/api/chat.py over app/repository/                 *)
(* chat_repository.py), the embedded-message conversation store            *)
(* (app/models/chat_service.py over app/repository/                        *)
(* conversation_repository.py) and user registration (app/api/auth.py,     *)
(* app/repository/user_repository.py, app/data_initializer.py).            *)
(*                                                                         *)
(* Every request handler is a process whose steps are the stretches of     *)
(* code between two awaits: the event loop may run any other handler       *)
(* between two steps, never inside one.                                    *)
(***************************************************************************)
EXTENDS Integers, Sequences, FiniteSets, TLC

\* ------------------------------------------------------------------ bounds
\* Concurrent POST /chat requests.
MaxReq == 2
\* Concurrent ChatService.generate_response calls.
MaxSvc == 2
\* Concurrent registration requests.
MaxReg == 2
\* Generate calls made during one process lifetime.
MaxCalls == 3
\* Investment records of a user whose whole meta-prompt is built.
MaxInv == 2
\* Investment types of a portfolio whose allocation is rendered.
MaxTypes == 6
\* POST /api/onboard/update requests.
MaxUpd == 4

VARIABLES
    \* --- configuration and the LLM service
    settings,       \* app.config.settings: the API keys read once (lru_cache)
    environ,        \* os.environ["GOOGLE_API_KEY"]
    llm,            \* the last LLMService.generate_response call and its result
    \* --- the chat orchestrator (ChatRepository)
    conversations,  \* db.conversations: conversation id -> document or NoDoc
    chat_messages,  \* db.chat_messages, in insertion order
    clock,          \* datetime.utcnow()
    req,            \* the POST /chat requests in flight
    ops,            \* the PUT and DELETE /conversations/{id} requests
    \* --- the embedded-message store (ConversationRepository / ChatService)
    conv_docs,      \* db.conversations documents holding a messages array
    svc,            \* the ChatService.generate_response calls in flight
    \* --- users
    users,          \* db.users, in insertion order
    user_indexes,   \* whether UserRepository.create_indexes has been run
    reg,            \* the registration requests in flight
    startup,        \* data_initializer.initialize_database's position
    \* --- the process lifetime
    calls,          \* the provider of every LLMService built so far, in order
    \* --- the meta-prompt builder
    mp,             \* one generate_meta_prompt call: the user's data, the result
    \* --- onboarding
    onboarding_sessions,  \* app.api.onboard.onboarding_sessions
    onb,            \* the /update and /complete requests in flight
    \* --- the routes and helpers modelled one call at a time
    login,          \* one login attempt and its answer
    investment,     \* one POST /investments request, then a fetch by id
    rec,            \* one _generate_personalized_recommendations call
    document,       \* one uploaded document and its background task
    mongo           \* app.database.mongodb: _mongo_client, _mongo_db, callers

llmVars  == <<settings, environ, llm>>
chatVars == <<conversations, chat_messages, clock, req, ops>>
svcVars  == <<conv_docs, svc>>
userVars == <<users, user_indexes, reg, startup>>
tailVars == <<login, investment, rec, document, mongo>>
laterVars == <<calls, mp, onboarding_sessions, onb, tailVars>>
notLlm   == <<chatVars, svcVars, userVars, laterVars>>
notChat  == <<llmVars, svcVars, userVars, laterVars>>
notSvc   == <<llmVars, chatVars, userVars, laterVars>>
notUsers == <<llmVars, chatVars, svcVars, laterVars>>
vars == <<settings, environ, llm, conversations, chat_messages, clock, req,
          ops, conv_docs, svc, users, user_indexes, reg, startup, calls, mp,
          onboarding_sessions, onb, login, investment, rec, document,
          mongo>>

\* ------------------------------------------------------------ small helpers
Last(s) == s[Len(s)]

IsPrefix(s, t) == Len(s) <= Len(t) /\ SubSeq(t, 1, Len(s)) = s

\* s occurs in t as a contiguous run: Python's `s in t` on strings.
Contains(t, s) ==
    \E i \in 0..(Len(t) - Len(s)) : SubSeq(t, i + 1, i + Len(s)) = s

\* str.lower() on the letters the model uses, one character per element.
LowerChar(c) ==
    CASE c = "I" -> "i"
      [] c = "S" -> "s"
      [] c = "H" -> "h"
      [] c = "R" -> "r"
      [] OTHER -> c

Lower(t) == [i \in 1..Len(t) |-> LowerChar(t[i])]

\* ------------------------------------------------------ the provider selector
NoKey == ""

PlaceholderGoogle      == "your-google-api-key"
PlaceholderMistral     == "your-mistral-api-key"
PlaceholderHuggingface == "your-huggingface-token"
PlaceholderOpenai      == "your-openai-api-key"

\* The values a key takes: unset (None or empty), the provider's placeholder,
\* a real key.
GoogleKeys      == {NoKey, PlaceholderGoogle, "AIza-key"}
MistralKeys     == {NoKey, PlaceholderMistral, "mistral-key"}
HuggingfaceKeys == {NoKey, PlaceholderHuggingface, "hf-token"}
OpenaiKeys      == {NoKey, PlaceholderOpenai, "sk-key"}

Settings ==
    [MISTRAL_API_KEY : MistralKeys, HUGGINGFACE_TOKEN : HuggingfaceKeys,
     OPENAI_API_KEY : OpenaiKeys, GOOGLE_API_KEY : GoogleKeys]

\* app/services/llm_service.py:24: os.environ.get(...) or getattr(settings, ...)
GoogleApiKey(env, s) == IF env # NoKey THEN env ELSE s.GOOGLE_API_KEY

\* The chain as it would be without the placeholder tests.
SelectProviderNoPlaceholder(env, s) ==
    IF GoogleApiKey(env, s) # NoKey THEN "google"
    ELSE IF s.MISTRAL_API_KEY # NoKey THEN "mistral"
    ELSE IF s.HUGGINGFACE_TOKEN # NoKey THEN "huggingface"
    ELSE IF s.OPENAI_API_KEY # NoKey THEN "openai"
    ELSE "mock"

\* LLMService.__init__: the if/elif chain over the four keys.
SelectProvider(env, s) ==
    IF GoogleApiKey(env, s) # NoKey /\ GoogleApiKey(env, s) # PlaceholderGoogle
        THEN "google"
    ELSE IF s.MISTRAL_API_KEY # NoKey /\ s.MISTRAL_API_KEY # PlaceholderMistral
        THEN "mistral"
    ELSE IF s.HUGGINGFACE_TOKEN # NoKey
            /\ s.HUGGINGFACE_TOKEN # PlaceholderHuggingface
        THEN "huggingface"
    ELSE IF s.OPENAI_API_KEY # NoKey /\ s.OPENAI_API_KEY # PlaceholderOpenai
        THEN "openai"
    ELSE "mock"

\* --------------------------------------------------------- the mock generator
\* Texts are sequences: a letter or a longer chunk per element.
\* Message contents:
TxtInvest == <<"I", "n", "v", "e", "s", "t">>
TxtSaveInvest == <<"s", "a", "v", "e", "+", "i", "n", "v", "e", "s", "t">>
TxtSaving == <<"S", "a", "v", "i", "n", "g">>
TxtLoan   == <<"l", "o", "a", "n">>
TxtDebt   == <<"d", "e", "b", "t">>
TxtRetire == <<"r", "e", "t", "i", "r", "e", "d">>
TxtBudget == <<"b", "u", "d", "g", "e", "t">>
TxtHello  == <<"H", "i">>

KwInvest == <<"i", "n", "v", "e", "s", "t">>
KwSave   == <<"s", "a", "v", "e">>
KwSaving == <<"s", "a", "v", "i", "n", "g">>
KwDebt   == <<"d", "e", "b", "t">>
KwLoan   == <<"l", "o", "a", "n">>
KwRetire == <<"r", "e", "t", "i", "r", "e">>
KwBudget == <<"b", "u", "d", "g", "e", "t">>

\* The canned responses, as texts: the table's keywords letter by letter,
\* the rest of each sentence in chunks that hold no keyword.
RespEmpty   == <<"I'm here to help with your financial questions!">>
RespInvest  ==
    <<"Based on general ">> \o KwInvest
    \o <<"ment principles, it's usually a good idea to diversify your portfolio.">>
RespSave    ==
    <<"S", "a", "v", "i", "n", "g", " money is a great financial habit.">>
RespDebt    ==
    <<"When managing ">> \o KwDebt
    \o <<", it's often best to prioritize high-interest ">> \o KwDebt
    \o <<" first.">>
RespRetire  ==
    <<"R", "e", "t", "i", "r", "e",
      "ment planning involves determining how much you need to ">>
    \o KwSave \o <<", choosing appropriate ">> \o KwInvest
    \o <<"ment vehicles like 401(k)s or IRAs.">>
RespBudget  ==
    <<"Creating a ">> \o KwBudget
    \o <<" helps you track income and expenses: 50% to needs, 30% to wants, and 20% to ">>
    \o KwSaving \o <<"s and ">> \o KwDebt \o <<" repayment.">>
RespDefault ==
    <<"As a financial advisor, I can help with questions about ">>
    \o KwInvest \o <<"ing, ">> \o KwSaving \o <<", ">> \o KwDebt
    \o <<" management, ">> \o KwRetire \o <<"ment planning, ">> \o KwBudget
    \o <<"ing, and other financial topics.">>

KeywordResponses ==
    {RespEmpty, RespInvest, RespSave, RespDebt, RespRetire, RespBudget,
     RespDefault}

\* _generate_mock_response matching the keywords without lowering the message
GenerateMockResponseCaseSensitive(messages) ==
    IF messages = <<>> THEN RespEmpty
    ELSE LET last_message == Last(messages).content IN
         IF Contains(last_message, KwInvest) THEN RespInvest
         ELSE IF Contains(last_message, KwSave)
                 \/ Contains(last_message, KwSaving) THEN RespSave
         ELSE IF Contains(last_message, KwDebt)
                 \/ Contains(last_message, KwLoan) THEN RespDebt
         ELSE IF Contains(last_message, KwRetire) THEN RespRetire
         ELSE IF Contains(last_message, KwBudget) THEN RespBudget
         ELSE RespDefault

\* LLMService._generate_mock_response: the keyword match on the last message.
GenerateMockResponse(messages) ==
    IF messages = <<>> THEN RespEmpty
    ELSE LET last_message == Lower(Last(messages).content) IN
         IF Contains(last_message, KwInvest) THEN RespInvest
         ELSE IF Contains(last_message, KwSave)
                 \/ Contains(last_message, KwSaving) THEN RespSave
         ELSE IF Contains(last_message, KwDebt)
                 \/ Contains(last_message, KwLoan) THEN RespDebt
         ELSE IF Contains(last_message, KwRetire) THEN RespRetire
         ELSE IF Contains(last_message, KwBudget) THEN RespBudget
         ELSE RespDefault

\* ------------------------------------------------------- the provider calls
\* What the HTTP call of one attempt does: it answers 200 with the expected
\* body, it raises (connection error, timeout, raise_for_status), or it
\* answers 200 with a body of another shape.
Outcomes == {"ok", "http_error", "bad_format"}

LiveText == <<"live-reply">>
ApologyIssue  == <<"I apologize, but I encountered an issue while processing your request.">>
ApologyGoogle == <<"I apologize, but I encountered an issue while processing your request with the Google API.">>
ApologyError  == <<"I apologize, but I encountered an error while processing your request. Please try again later.">>

\* _call_openai_api, _call_mistral_api, _call_huggingface_api: an exception
\* of the HTTP call leaves the function.
CallChatApi(outcome) ==
    CASE outcome = "ok"         -> [raised |-> FALSE, text |-> LiveText]
      [] outcome = "http_error" -> [raised |-> TRUE,  text |-> <<>>]
      [] outcome = "bad_format" -> [raised |-> FALSE, text |-> ApologyIssue]

\* _call_google_api: the HTTP call sits in its own try/except, which logs
\* the exception and falls through to the apology.
CallGoogleApi(outcome) ==
    CASE outcome = "ok"         -> [raised |-> FALSE, text |-> LiveText]
      [] outcome = "http_error" -> [raised |-> FALSE, text |-> ApologyGoogle]
      [] outcome = "bad_format" -> [raised |-> FALSE, text |-> ApologyGoogle]

\* The body of LLMService.generate_response, run once: the mock provider
\* answers from the table; a live provider is called, and an exception that
\* leaves the call is answered from the table as well.
GenerateResponseBody(provider, messages, outcome) ==
    IF provider = "mock"
    THEN [raised |-> FALSE, text |-> GenerateMockResponse(messages),
          http |-> 0, provider_raised |-> FALSE]
    ELSE LET r == IF provider = "google" THEN CallGoogleApi(outcome)
                  ELSE CallChatApi(outcome)
         IN IF r.raised
            THEN [raised |-> FALSE, text |-> GenerateMockResponse(messages),
                  http |-> 1, provider_raised |-> TRUE]
            ELSE [raised |-> FALSE, text |-> r.text, http |-> 1,
                  provider_raised |-> FALSE]

\* @retry(stop=stop_after_attempt(3), wait=wait_exponential(1, min=2, max=10))
StopAfterAttempt == 3
WaitMin == 2
WaitMax == 10

Pow2(n) == IF n <= 0 THEN 1 ELSE IF n = 1 THEN 2 ELSE IF n = 2 THEN 4 ELSE 8

\* tenacity's wait_exponential after the given attempt.
WaitExponential(attempt) ==
    LET e == Pow2(attempt - 1)
        capped == IF e > WaitMax THEN WaitMax ELSE e
    IN IF capped < WaitMin THEN WaitMin ELSE capped

\* The decorated generate_response: the body is run again only when an
\* exception leaves it, sleeping between two runs; after the third such
\* exception tenacity raises RetryError.  outcomes[i] is what the HTTP call
\* of run i does.
RECURSIVE GenerateResponseFrom(_, _, _, _, _, _)
GenerateResponseFrom(provider, messages, outcomes, attempt, http, slept) ==
    LET b == GenerateResponseBody(provider, messages, outcomes[attempt]) IN
    IF ~b.raised
    THEN [raised |-> FALSE, text |-> b.text, attempts |-> attempt,
          http_calls |-> http + b.http, slept |-> slept,
          provider_raised |-> b.provider_raised]
    ELSE IF attempt >= StopAfterAttempt
    THEN [raised |-> TRUE, text |-> <<>>, attempts |-> attempt,
          http_calls |-> http + b.http, slept |-> slept,
          provider_raised |-> b.provider_raised]
    ELSE GenerateResponseFrom(provider, messages, outcomes, attempt + 1,
                              http + b.http, slept + WaitExponential(attempt))

GenerateResponse(provider, messages, outcomes) ==
    GenerateResponseFrom(provider, messages, outcomes, 1, 0, 0)

OutcomeSeqs == [1..StopAfterAttempt -> Outcomes]

\* generate_llm_response: a fresh LLMService per call, the system prompt in
\* front of the conversation context, and an apology for any exception.
SystemPrompt == <<"s", "y", "s">>

GenerateLlmResponse(env, s, context, outcomes) ==
    LET provider == SelectProvider(env, s)
        messages == <<[role |-> "system", content |-> SystemPrompt]>> \o context
        r == GenerateResponse(provider, messages, outcomes)
    IN [text |-> IF r.raised THEN ApologyError ELSE r.text,
        provider |-> provider,
        failed |-> provider # "mock" /\ outcomes[1] # "ok"]

\* ------------------------------------------------- the LLM service as state
LlmContents == {TxtInvest, TxtSaveInvest, TxtSaving, TxtLoan, TxtRetire,
                TxtBudget, TxtHello}

\* The message lists callers pass: nothing, a system prompt alone, a system
\* prompt and a user message.
LlmMessageLists ==
    {<<>>, <<[role |-> "system", content |-> SystemPrompt]>>}
    \cup {<<[role |-> "system", content |-> SystemPrompt],
            [role |-> "user", content |-> c]>> : c \in LlmContents}

NoService == [constructed |-> FALSE, google_api_key |-> NoKey,
              mistral_api_key |-> NoKey, huggingface_token |-> NoKey,
              openai_api_key |-> NoKey, provider |-> "unset"]

NoResult == [raised |-> FALSE, text |-> <<>>, attempts |-> 0, http_calls |-> 0,
             slept |-> 0, provider_raised |-> FALSE]

InitLlm ==
    /\ settings \in Settings
    /\ environ \in GoogleKeys
    /\ llm = [service |-> NoService, called |-> FALSE, messages |-> <<>>,
              outcomes |-> <<>>, result |-> NoResult]

\* LLMService.__init__
LLMServiceInit ==
    /\ ~llm.service.constructed
    /\ llm' = [llm EXCEPT !.service =
                 [constructed |-> TRUE,
                  google_api_key |-> GoogleApiKey(environ, settings),
                  mistral_api_key |-> settings.MISTRAL_API_KEY,
                  huggingface_token |-> settings.HUGGINGFACE_TOKEN,
                  openai_api_key |-> settings.OPENAI_API_KEY,
                  provider |-> SelectProvider(environ, settings)]]
    /\ UNCHANGED <<settings, environ, notLlm>>

\* LLMService.generate_response(messages), with what the provider's HTTP
\* endpoint does on each attempt.
LLMGenerate(messages, outcomes) ==
    /\ llm.service.constructed
    /\ ~llm.called
    /\ llm' = [llm EXCEPT !.called = TRUE, !.messages = messages,
                          !.outcomes = outcomes,
                          !.result = GenerateResponse(llm.service.provider,
                                                      messages, outcomes)]
    /\ UNCHANGED <<settings, environ, notLlm>>

NextLlm ==
    \/ LLMServiceInit
    \/ \E messages \in LlmMessageLists, outcomes \in OutcomeSeqs :
          LLMGenerate(messages, outcomes)

\* ------------------------------------------------------ the chat repository
UserIds == {"u1", "u2"}
ConvOrder == <<"c1">>
ConvIds == {ConvOrder[i] : i \in 1..Len(ConvOrder)}
Titles  == {"New Conversation", "Renamed"}
ChatContents == {TxtInvest}
Reqs == 1..MaxReq

NoDoc == [state |-> "none", user_id |-> "", title |-> "", updated_at |-> 0]

\* The id of a message: ObjectId() is fresh for every create_message call,
\* here the request and which of its two messages it is.
MsgId(r, n) == [req |-> r, n |-> n]

\* A write that replaced the conversation's list instead of adding to it.
InsertOneReplacing(coll, doc) ==
    SelectSeq(coll, LAMBDA m : m.conversation_id # doc.conversation_id)
        \o <<doc>>

\* collection.insert_one(doc)
InsertOne(coll, doc) == Append(coll, doc)

\* collection.find({"conversation_id": c}), in natural order
FindByConversation(c) ==
    SelectSeq(chat_messages, LAMBDA m : m.conversation_id = c)

\* cursor.sort("created_at", 1): ascending by created_at (stamps are distinct)
SortByCreatedAt(ms) ==
    [i \in 1..Len(ms) |->
        CHOOSE m \in {ms[k] : k \in 1..Len(ms)} :
            Cardinality({k \in 1..Len(ms) : ms[k].created_at <= m.created_at})
                = i]

Reverse(s) == [i \in 1..Len(s) |-> s[Len(s) + 1 - i]]

Min(a, b) == IF a < b THEN a ELSE b

\* ChatRepository.get_conversation_messages(c, skip, limit)
DefaultMessagesLimit == 50

GetConversationMessages(c, skip, limit) ==
    LET sorted == SortByCreatedAt(FindByConversation(c))
    IN SubSeq(sorted, skip + 1, Min(Len(sorted), skip + limit))

\* ChatRepository.get_conversation_context(c, limit): the newest `limit`
\* messages, oldest first, as {role, content}.
DefaultContextLimit == 10

GetConversationContext(c, limit) ==
    LET newest_first == Reverse(SortByCreatedAt(FindByConversation(c)))
        cut == SubSeq(newest_first, 1, Min(Len(newest_first), limit))
        messages == Reverse(cut)
    IN [i \in 1..Len(messages) |->
            [role |-> messages[i].role, content |-> messages[i].content]]

\* ------------------------------------------------------------- POST /chat
IdleReq == [pc |-> "idle", caller |-> "", cid |-> "", content |-> <<>>,
            owner |-> "", now |-> 0, context |-> <<>>, ai |-> <<>>,
            status |-> 0, steps |-> <<>>, wrote |-> FALSE,
            llm_failed |-> FALSE, db_failed |-> FALSE]

\* send_message, line 165: chat_repo.get_conversation, 404 when there is none.
\* Requests are numbered in the order they arrive.
SendFetchConversation(r, u, c, content) ==
    /\ req[r].pc = "idle"
    /\ \A q \in 1..(r - 1) : req[q].pc # "idle"
    /\ req' = [req EXCEPT ![r] =
         IF conversations[c].state = "live"
         THEN [@ EXCEPT !.pc = "authorize", !.caller = u, !.cid = c,
                        !.content = content,
                        !.owner = conversations[c].user_id,
                        !.steps = <<"fetch">>]
         ELSE [@ EXCEPT !.pc = "done", !.caller = u, !.cid = c,
                        !.content = content, !.status = 404,
                        !.steps = <<"fetch", "raise">>]]
    /\ UNCHANGED <<conversations, chat_messages, clock, ops, notChat>>

\* The handler without its owner check.
SendAuthorizeUnchecked(r) ==
    /\ req[r].pc = "authorize"
    /\ req' = [req EXCEPT ![r].pc = "touch_in",
                          ![r].steps = Append(@, "authorize")]
    /\ UNCHANGED <<conversations, chat_messages, clock, ops, notChat>>

\* The handler invoking the provider right after the owner check.
SendAuthorizeThenProvider(r) ==
    /\ req[r].pc = "authorize"
    /\ req' = [req EXCEPT ![r] =
         IF req[r].owner # req[r].caller
         THEN [@ EXCEPT !.pc = "done", !.status = 403,
                        !.steps = Append(@, "raise")]
         ELSE [@ EXCEPT !.pc = "provider",
                        !.steps = Append(@, "authorize")]]
    /\ UNCHANGED <<conversations, chat_messages, clock, ops, notChat>>

\* send_message, lines 172-176: the owner check, 403 for another user
SendAuthorize(r) ==
    /\ req[r].pc = "authorize"
    /\ req' = [req EXCEPT ![r] =
         IF req[r].owner # req[r].caller
         THEN [@ EXCEPT !.pc = "done", !.status = 403,
                        !.steps = Append(@, "authorize") \o <<"raise">>]
         ELSE [@ EXCEPT !.pc = "touch_in",
                        !.steps = Append(@, "authorize")]]
    /\ UNCHANGED <<conversations, chat_messages, clock, ops, notChat>>

\* create_message, lines 109-124: stamp the message with utcnow() and set the
\* conversation's updated_at (update_one matches nothing once it is deleted)
CreateMessageTouch(r, next) ==
    /\ req' = [req EXCEPT ![r].pc = next, ![r].now = clock,
                          ![r].wrote = TRUE]
    /\ clock' = clock + 1
    /\ conversations' =
         IF conversations[req[r].cid].state = "live"
         THEN [conversations EXCEPT ![req[r].cid].updated_at = clock]
         ELSE conversations
    /\ UNCHANGED <<chat_messages, ops, notChat>>

\* create_message, line 126: insert_one into chat_messages
CreateMessageInsert(r, n, role, content, metadata) ==
    chat_messages' = InsertOne(chat_messages,
        [id |-> MsgId(r, n), conversation_id |-> req[r].cid, role |-> role,
         content |-> content, created_at |-> req[r].now,
         metadata |-> metadata])

\* send_message, line 179: the inbound message, first half
SendPersistInTouch(r) ==
    /\ req[r].pc = "touch_in"
    /\ CreateMessageTouch(r, "insert_in")

\* send_message, line 179: the inbound message, second half
SendPersistInInsert(r) ==
    /\ req[r].pc = "insert_in"
    /\ CreateMessageInsert(r, "in", "user", req[r].content, "none")
    /\ req' = [req EXCEPT ![r].pc = "context", ![r].now = 0,
                          ![r].steps = Append(@, "persist_in")]
    /\ UNCHANGED <<conversations, clock, ops, notChat>>

\* send_message, line 183: get_conversation_context; a database error
\* raises inside the try
SendBuildContext(r, ok) ==
    /\ req[r].pc = "context"
    /\ req' = [req EXCEPT ![r] =
         IF ok
         THEN [@ EXCEPT !.pc = "provider",
                        !.context = GetConversationContext(req[r].cid,
                                        DefaultContextLimit),
                        !.steps = Append(@, "context")]
         ELSE [@ EXCEPT !.pc = "except", !.db_failed = TRUE]]
    /\ UNCHANGED <<conversations, chat_messages, clock, ops, notChat>>

\* The handler as it would be if a provider failure raised.
SendInvokeProviderRaising(r, outcomes) ==
    /\ req[r].pc = "provider"
    /\ LET res == GenerateLlmResponse(environ, settings, req[r].context,
                                      outcomes)
       IN req' = [req EXCEPT ![r] =
            IF res.failed
            THEN [@ EXCEPT !.pc = "except", !.llm_failed = TRUE,
                           !.context = <<>>,
                           !.steps = Append(@, "provider")]
            ELSE [@ EXCEPT !.pc = "touch_out", !.ai = res.text,
                           !.context = <<>>,
                           !.steps = Append(@, "provider")]]
    /\ UNCHANGED <<conversations, chat_messages, clock, ops, notChat>>

\* send_message, line 186: generate_llm_response, which returns a text
\* whatever the provider does
SendInvokeProvider(r, outcomes) ==
    /\ req[r].pc = "provider"
    /\ LET res == GenerateLlmResponse(environ, settings, req[r].context,
                                      outcomes)
       IN req' = [req EXCEPT ![r].pc = "touch_out", ![r].ai = res.text,
                             ![r].context = <<>>,
                             ![r].llm_failed = res.failed,
                             ![r].steps = Append(@, "provider")]
    /\ UNCHANGED <<conversations, chat_messages, clock, ops, notChat>>

\* send_message, line 195: the assistant message, first half; a database
\* error raises inside the try
SendPersistOutTouch(r, ok) ==
    /\ req[r].pc = "touch_out"
    /\ IF ok
       THEN CreateMessageTouch(r, "insert_out")
       ELSE /\ req' = [req EXCEPT ![r].pc = "except", ![r].db_failed = TRUE]
            /\ UNCHANGED <<conversations, chat_messages, clock, ops, notChat>>

\* send_message, lines 195-197: the assistant message, second half, and the
\* return
SendPersistOutInsert(r, ok) ==
    /\ req[r].pc = "insert_out"
    /\ IF ok
       THEN /\ CreateMessageInsert(r, "out", "assistant", req[r].ai,
                                   "generated")
            /\ req' = [req EXCEPT ![r].pc = "done", ![r].status = 200,
                          ![r].now = 0,
                          ![r].steps = @ \o <<"persist_out", "return">>]
       ELSE /\ req' = [req EXCEPT ![r].pc = "except", ![r].db_failed = TRUE]
            /\ UNCHANGED chat_messages
    /\ UNCHANGED <<conversations, clock, ops, notChat>>

\* send_message, lines 198-200: the except clause calls logger.error, and
\* app/api/chat.py defines no logger: the NameError leaves the handler before
\* the fallback message is built, and main.py's exception handler answers 500
SendExcept(r) ==
    /\ req[r].pc = "except"
    /\ req' = [req EXCEPT ![r].pc = "done", ![r].status = 500,
                          ![r].steps = Append(@, "raise")]
    /\ UNCHANGED <<conversations, chat_messages, clock, ops, notChat>>

\* ------------------------------------------- the other conversation routes
IdleOps == [del |-> [pc |-> "idle", cid |-> ""]]

\* POST /conversations: ChatRepository.create_conversation, one insert_one
\* under a fresh ObjectId (ids are handed out in order and never reused)
CreateConversation(u, c) ==
    /\ conversations[c].state = "none"
    /\ \E i \in 1..Len(ConvOrder) :
          /\ ConvOrder[i] = c
          /\ \A j \in 1..(i - 1) : conversations[ConvOrder[j]].state # "none"
    /\ conversations' = [conversations EXCEPT ![c] =
            [state |-> "live", user_id |-> u, title |-> "New Conversation",
             updated_at |-> clock]]
    /\ UNCHANGED <<chat_messages, clock, req, ops, notChat>>

\* PUT /conversations/{id}: the owner's update_conversation sets the fields
\* given and updated_at, and nothing of chat_messages
UpdateConversation(u, c, title) ==
    /\ conversations[c].state = "live"
    /\ conversations[c].user_id = u
    /\ conversations' = [conversations EXCEPT ![c].title = title,
                                              ![c].updated_at = clock]
    /\ UNCHANGED <<chat_messages, clock, req, ops, notChat>>

\* DELETE /conversations/{id}, ChatRepository.delete_conversation line 78:
\* the owner's delete_one on conversations
DeleteConversationDoc(u, c) ==
    /\ ops.del.pc = "idle"
    /\ conversations[c].state = "live"
    /\ conversations[c].user_id = u
    /\ conversations' = [conversations EXCEPT ![c].state = "deleted"]
    /\ ops' = [ops EXCEPT !.del = [pc |-> "messages", cid |-> c]]
    /\ UNCHANGED <<chat_messages, clock, req, notChat>>

\* ChatRepository.delete_conversation line 81: delete_many on chat_messages
DeleteConversationMessages ==
    /\ ops.del.pc = "messages"
    /\ chat_messages' =
         SelectSeq(chat_messages, LAMBDA m : m.conversation_id # ops.del.cid)
    /\ ops' = [ops EXCEPT !.del = [pc |-> "idle", cid |-> ""]]
    /\ UNCHANGED <<conversations, clock, req, notChat>>

\* ----------------------- the embedded-message store and ChatService
\* ConversationRepository keeps a conversation's messages in an array of the
\* conversation document; there is one such conversation here.
SvcIds == 1..MaxSvc

NoConv == [state |-> "none", user_id |-> "", messages |-> <<>>]

IdleSvc == [pc |-> "idle", caller |-> "", llm_ok |-> FALSE, reply |-> <<>>,
            returned |-> "none"]

SvcFallback == <<"I'm sorry, I'm having trouble generating a response right now. Please try again later.">>

\* ConversationRepository.create, with or without an initial message; the
\* id is a fresh ObjectId, so a deleted conversation never comes back
ConversationCreate(u, initial) ==
    /\ conv_docs.state = "none"
    /\ conv_docs' = [state |-> "live", user_id |-> u,
                     messages |-> IF initial
                                  THEN <<[role |-> "user", content |-> TxtInvest,
                                          by |-> 0]>>
                                  ELSE <<>>]
    /\ UNCHANGED <<svc, notSvc>>

\* ConversationRepository.delete
ConversationDelete ==
    /\ conv_docs.state = "live"
    /\ conv_docs' = [NoConv EXCEPT !.state = "deleted"]
    /\ UNCHANGED <<svc, notSvc>>

\* ChatService.generate_response, lines 31-34: conversation_repo.get and the
\* owner check; None is returned when either fails
SvcGetConversation(i, u) ==
    /\ svc[i].pc = "idle"
    /\ svc' = [svc EXCEPT ![i] =
         IF conv_docs.state = "live" /\ conv_docs.user_id = u
         THEN [@ EXCEPT !.pc = "llm", !.caller = u]
         ELSE [@ EXCEPT !.pc = "done", !.caller = u, !.returned = "None"]]
    /\ UNCHANGED <<conv_docs, notSvc>>

\* ChatService.generate_response, lines 43-49: _call_llm answers None when the
\* call fails, and the fallback Message is returned without being stored
SvcCallLlm(i, ok) ==
    /\ svc[i].pc = "llm"
    /\ svc' = [svc EXCEPT ![i] =
         IF ok
         THEN [@ EXCEPT !.pc = "add_get", !.llm_ok = TRUE, !.reply = LiveText]
         ELSE [@ EXCEPT !.pc = "done", !.llm_ok = FALSE,
                        !.reply = SvcFallback, !.returned = "fallback"]]
    /\ UNCHANGED <<conv_docs, notSvc>>

\* ConversationRepository.add_message, lines 90-93: get, None when absent;
\* generate_response returns the assistant message either way
SvcAddMessageGet(i) ==
    /\ svc[i].pc = "add_get"
    /\ svc' = [svc EXCEPT ![i] =
         IF conv_docs.state = "live"
         THEN [@ EXCEPT !.pc = "add_push"]
         ELSE [@ EXCEPT !.pc = "done", !.returned = "reply"]]
    /\ UNCHANGED <<conv_docs, notSvc>>

\* The $push of add_message's update_one: it appends to whatever array the
\* document holds when it is applied.
PushMessage(messages, msg) == Append(messages, msg)

\* ConversationRepository.add_message, lines 96-102: update_one with $push
SvcAddMessagePush(i) ==
    /\ svc[i].pc = "add_push"
    /\ conv_docs' =
         IF conv_docs.state = "live"
         THEN [conv_docs EXCEPT !.messages =
                 PushMessage(@, [role |-> "assistant",
                                 content |-> svc[i].reply, by |-> i])]
         ELSE conv_docs
    /\ svc' = [svc EXCEPT ![i].pc = "done", ![i].returned = "reply"]
    /\ UNCHANGED notSvc

InitSvc ==
    /\ conv_docs = NoConv
    /\ svc = [i \in SvcIds |-> IdleSvc]

NextSvc ==
    \/ \E u \in UserIds, initial \in BOOLEAN : ConversationCreate(u, initial)
    \/ ConversationDelete
    \/ \E i \in SvcIds, u \in UserIds : SvcGetConversation(i, u)
    \/ \E i \in SvcIds, ok \in BOOLEAN : SvcCallLlm(i, ok)
    \/ \E i \in SvcIds : SvcAddMessageGet(i)
    \/ \E i \in SvcIds : SvcAddMessagePush(i)

\* ------------------------------------------------------------------ users
RegIds == 1..MaxReg

NoEmail == "None"
RegUserIds == {"alice", "testuser"}
RegEmails  == {NoEmail, "a@example.com", "test@example.com"}

TestUser == [user_id |-> "testuser", email |-> "test@example.com"]

IdleReg == [pc |-> "idle", user_id |-> "", email |-> "", status |-> 0]

NoIndexes == [email |-> FALSE, user_id |-> FALSE]

\* collection.find_one({"user_id": user_id}) finds a document
UserExists(user_id) ==
    \E k \in 1..Len(users) : users[k].user_id = user_id

\* The unique indexes that exist refuse doc: user_id is a plain unique index;
\* email is unique and sparse, which leaves out only the documents without
\* the field, and every document written here has it (None included).
DuplicateKey(doc) ==
    \/ /\ user_indexes.user_id
       /\ \E k \in 1..Len(users) : users[k].user_id = doc.user_id
    \/ /\ user_indexes.email
       /\ \E k \in 1..Len(users) : users[k].email = doc.email

DistinctOn(field(_)) ==
    \A j, k \in 1..Len(users) : j # k => field(users[j]) # field(users[k])

EmailOf(doc) == doc.email
UserIdOf(doc) == doc.user_id

\* UserRepository.create_indexes, run by app/database/initialize_db.py and
\* by nothing in the application: create_index raises on a collection that
\* already holds duplicates, and the second index is then never reached
CreateIndexes ==
    /\ user_indexes = NoIndexes
    /\ user_indexes' =
         IF ~DistinctOn(EmailOf) THEN NoIndexes
         ELSE [email |-> TRUE, user_id |-> DistinctOn(UserIdOf)]
    /\ user_indexes' # user_indexes
    /\ UNCHANGED <<users, reg, startup, notUsers>>

\* register_user, lines 188-192: an existing user_id is answered with the
\* stored user
RegisterLookup(i, user_id, email) ==
    /\ reg[i].pc = "idle"
    /\ reg' = [reg EXCEPT ![i] =
         IF UserExists(user_id)
         THEN [@ EXCEPT !.pc = "done", !.user_id = user_id, !.email = email,
                        !.status = 200]
         ELSE [@ EXCEPT !.pc = "check", !.user_id = user_id,
                        !.email = email]]
    /\ UNCHANGED <<users, user_indexes, startup, notUsers>>

\* UserRepository.create, lines 60-63: the second get_by_user_id; ValueError
\* becomes 400 in register_user
CreateCheck(i) ==
    /\ reg[i].pc = "check"
    /\ reg' = [reg EXCEPT ![i] =
         IF UserExists(reg[i].user_id)
         THEN [@ EXCEPT !.pc = "done", !.status = 400]
         ELSE [@ EXCEPT !.pc = "insert"]]
    /\ UNCHANGED <<users, user_indexes, startup, notUsers>>

\* UserRepository.create, lines 74-83: insert_one; DuplicateKeyError becomes
\* ValueError, 400 in register_user
CreateInsert(i) ==
    /\ reg[i].pc = "insert"
    /\ LET doc == [user_id |-> reg[i].user_id, email |-> reg[i].email] IN
       IF DuplicateKey(doc)
       THEN /\ reg' = [reg EXCEPT ![i].pc = "done", ![i].status = 400]
            /\ UNCHANGED users
       ELSE /\ users' = Append(users, doc)
            /\ reg' = [reg EXCEPT ![i].pc = "done", ![i].status = 200]
    /\ UNCHANGED <<user_indexes, startup, notUsers>>

\* initialize_database, lines 93-94: count_documents({}) == 0
StartupCount ==
    /\ startup = "idle"
    /\ startup' = IF Len(users) = 0 THEN "insert" ELSE "done"
    /\ UNCHANGED <<users, user_indexes, reg, notUsers>>

\* initialize_database, lines 101-108: insert_one of the test user; an
\* exception is logged by startup_db_client
StartupInsert ==
    /\ startup = "insert"
    /\ users' = IF DuplicateKey(TestUser) THEN users
                ELSE Append(users, TestUser)
    /\ startup' = "done"
    /\ UNCHANGED <<user_indexes, reg, notUsers>>

InitUsers ==
    /\ users = <<>>
    /\ user_indexes = NoIndexes
    /\ reg = [i \in RegIds |-> IdleReg]
    /\ startup = "idle"

NextUsers ==
    \/ CreateIndexes
    \/ \E i \in RegIds, user_id \in RegUserIds, email \in RegEmails :
          RegisterLookup(i, user_id, email)
    \/ \E i \in RegIds : CreateCheck(i)
    \/ \E i \in RegIds : CreateInsert(i)
    \/ StartupCount
    \/ StartupInsert

\* ------------------------------------------------ the chat specification
NoLlm == [service |-> NoService, called |-> FALSE, messages |-> <<>>,
          outcomes |-> <<>>, result |-> NoResult]

NoSettings == [MISTRAL_API_KEY |-> NoKey, HUGGINGFACE_TOKEN |-> NoKey,
               OPENAI_API_KEY |-> NoKey, GOOGLE_API_KEY |-> NoKey]

\* The deployments the chat routes are explored under: no key at all, a
\* Google key, an OpenAI key.
ChatSettings ==
    {NoSettings,
     [NoSettings EXCEPT !.OPENAI_API_KEY = "sk-key"]}

\* The parts of the program that a specification leaves at rest.
QuietCalls == calls = <<>>

QuietPrompt == mp = [called |-> FALSE]

QuietOnboarding ==
    /\ onboarding_sessions = <<>>
    /\ onb = <<>>

QuietTail ==
    /\ login = [pc |-> "idle"]
    /\ investment = [pc |-> "idle"]
    /\ rec = [pc |-> "idle"]
    /\ document = [pc |-> "idle"]
    /\ mongo = [pc |-> "idle"]

QuietLater == QuietCalls /\ QuietPrompt /\ QuietOnboarding /\ QuietTail

InitChat ==
    /\ conversations = [c \in ConvIds |-> NoDoc]
    /\ chat_messages = <<>>
    /\ clock = 1
    /\ req = [r \in Reqs |-> IdleReq]
    /\ ops = IdleOps

Init ==
    /\ settings \in ChatSettings
    /\ environ = NoKey
    /\ llm = NoLlm
    /\ InitChat
    /\ InitSvc
    /\ InitUsers
    /\ QuietLater

NextChat ==
    \/ \E u \in UserIds, c \in ConvIds : CreateConversation(u, c)
    \/ \E u \in UserIds, c \in ConvIds, t \in Titles :
          UpdateConversation(u, c, t)
    \/ \E u \in UserIds, c \in ConvIds : DeleteConversationDoc(u, c)
    \/ DeleteConversationMessages
    \/ \E r \in Reqs, u \in UserIds, c \in ConvIds, t \in ChatContents :
          SendFetchConversation(r, u, c, t)
    \/ \E r \in Reqs : SendAuthorize(r)
    \/ \E r \in Reqs : SendPersistInTouch(r)
    \/ \E r \in Reqs : SendPersistInInsert(r)
    \/ \E r \in Reqs, ok \in BOOLEAN : SendBuildContext(r, ok)
    \/ \E r \in Reqs, outcomes \in OutcomeSeqs : SendInvokeProvider(r, outcomes)
    \/ \E r \in Reqs, ok \in BOOLEAN : SendPersistOutTouch(r, ok)
    \/ \E r \in Reqs, ok \in BOOLEAN : SendPersistOutInsert(r, ok)
    \/ \E r \in Reqs : SendExcept(r)

Next == NextChat

Spec == Init /\ [][Next]_vars

\* ------------------------------------------- the LLM service specification
InitLLM ==
    /\ InitLlm
    /\ InitChat
    /\ InitSvc
    /\ InitUsers
    /\ QuietLater

SpecLLM == InitLLM /\ [][NextLlm]_vars

\* --------------------------------------- the ChatService specification
InitService ==
    /\ settings = NoSettings
    /\ environ = NoKey
    /\ llm = NoLlm
    /\ InitChat
    /\ InitSvc
    /\ InitUsers
    /\ QuietLater

SpecSvc == InitService /\ [][NextSvc]_vars

\* ------------------------------------------- the registration specification
InitRegistration ==
    /\ settings = NoSettings
    /\ environ = NoKey
    /\ llm = NoLlm
    /\ InitChat
    /\ InitSvc
    /\ InitUsers
    /\ QuietLater

SpecUsers == InitRegistration /\ [][NextUsers]_vars

\* --------------------------------------- the process-lifetime specification
\* generate_llm_response, line 561: a new LLMService for this call, whose
\* __init__ reads the keys as they are now
GenerateLlmResponseCall ==
    /\ Len(calls) < MaxCalls
    /\ calls' = Append(calls, SelectProvider(environ, settings))
    /\ UNCHANGED <<llmVars, chatVars, svcVars, userVars, mp,
                   onboarding_sessions, onb, tailVars>>

\* EnhancedChatbot._generate_response_from_llm, lines 224-228: the hard-coded
\* key is written to os.environ, then a new LLMService is built
EnhancedChatbotCall ==
    /\ Len(calls) < MaxCalls
    /\ environ' = "AIza-key"
    /\ calls' = Append(calls, SelectProvider(environ', settings))
    /\ UNCHANGED <<settings, llm, chatVars, svcVars, userVars, mp,
                   onboarding_sessions, onb, tailVars>>

InitProcess ==
    /\ settings \in Settings
    /\ environ \in GoogleKeys
    /\ llm = NoLlm
    /\ InitChat
    /\ InitSvc
    /\ InitUsers
    /\ QuietLater

SpecProcess ==
    InitProcess /\ [][GenerateLlmResponseCall \/ EnhancedChatbotCall]_vars

\* ------------------------------------------------- the meta-prompt builder
\* A numeric field of a stored record: absent from the document, present
\* with a value float() refuses (None, "n/a"), or a number.
Missing == [kind |-> "missing", v |-> 0]
Malformed == [kind |-> "bad", v |-> 0]
Num(n) == [kind |-> "num", v |-> n]

\* float(record.get(field, 0)): the default for an absent field, ValueError
\* or TypeError for a malformed one.
Float(x) ==
    CASE x.kind = "missing" -> [raised |-> FALSE, v |-> 0]
      [] x.kind = "bad"     -> [raised |-> TRUE,  v |-> 0]
      [] x.kind = "num"     -> [raised |-> FALSE, v |-> x.v]

\* sum(float(inv.get('current_value', 0)) for inv in invs), for invs without
\* a malformed field
RECURSIVE SumCurrentValue(_)
SumCurrentValue(invs) ==
    IF invs = <<>> THEN 0
    ELSE Float(invs[1].current_value).v + SumCurrentValue(Tail(invs))

\* f"{pct:.1f}" of pct = num / den * 100, in tenths of a percent: the
\* nearest tenth, an exact tie going to the even one.
FormatTenths(num, den) ==
    LET q == (num * 1000) \div den
        r == (num * 1000) % den
    IN IF 2 * r > den THEN q + 1
       ELSE IF 2 * r < den THEN q
       ELSE IF q % 2 = 0 THEN q ELSE q + 1

\* format_investment_summary: the literal for no investments; otherwise the
\* total and, per investment type, its value and its share of the total.
\* Nothing here catches an exception.
FormatInvestmentSummary(investments) ==
    IF investments = <<>>
    THEN [raised |-> FALSE, text |-> <<"No current investments">>,
          pcts |-> <<>>]
    ELSE LET idx == 1..Len(investments)
             total_value == SumCurrentValue(investments)
             types == {investments[i].investment_type : i \in idx}
             OfType(t) == SelectSeq(investments,
                                    LAMBDA inv : inv.investment_type = t)
         IN IF \/ \E i \in idx : Float(investments[i].current_value).raised
               \/ \E i \in idx : Float(investments[i].amount).raised
               \/ total_value = 0
            THEN [raised |-> TRUE, text |-> <<>>, pcts |-> <<>>]
            ELSE [raised |-> FALSE,
                  text |-> <<"Total Portfolio Value">>,
                  pcts |-> [t \in types |->
                              FormatTenths(SumCurrentValue(OfType(t)),
                                           total_value)]]

\* _generate_user_profile: annual income, zero when float() refuses it
GenerateUserProfile(user_data) ==
    LET income == Float(user_data.demographics.annual_income)
    IN [raised |-> FALSE,
        annual_income |-> IF income.raised THEN 0 ELSE income.v]

\* _generate_financial_context: the account and credit numbers are read in
\* one try block, which zeroes all of them when one is refused; the
\* investment summary is formatted outside it
GenerateFinancialContext(user_data) ==
    LET balance == Float(user_data.account.account_balance)
        score == Float(user_data.credit.credit_score)
        refused == balance.raised \/ score.raised
        summary == FormatInvestmentSummary(user_data.investments)
    IN [raised |-> summary.raised,
        account_balance |-> IF refused THEN 0 ELSE balance.v,
        credit_score |-> IF refused THEN 0 ELSE score.v,
        text |-> summary.text,
        pcts |-> summary.pcts]

\* _generate_transaction_context: a literal for no transactions; otherwise
\* float(amount) of every transaction, outside any try block
GenerateTransactionContext(user_data) ==
    LET txns == user_data.transactions IN
    IF txns = <<>>
    THEN [raised |-> FALSE, text |-> <<"No recent transaction data available.">>]
    ELSE IF \E i \in 1..Len(txns) : Float(txns[i].amount).raised
    THEN [raised |-> TRUE, text |-> <<>>]
    ELSE [raised |-> FALSE, text |-> <<"RECENT TRANSACTIONS (Last 30 days)">>]

\* _gather_user_data leaves a collection out of user_data when it holds
\* nothing for the user.
NoUserData(user_data) ==
    /\ ~user_data.demographics.present
    /\ ~user_data.account.present
    /\ ~user_data.credit.present
    /\ user_data.investments = <<>>
    /\ user_data.transactions = <<>>

\* _generate_generic_meta_prompt
GenericMetaPrompt ==
    [raised |-> FALSE, kind |-> "generic",
     text |-> <<"You are a personalized financial wellness assistant. Your client's data is limited">>,
     annual_income |-> 0, account_balance |-> 0, credit_score |-> 0,
     pcts |-> <<>>, section_raised |-> FALSE]

\* generate_meta_prompt without its try/except: the database read, the
\* generic prompt for a user without data, else the four sections
GenerateMetaPromptBody(user_data) ==
    IF user_data.db_error THEN [GenericMetaPrompt EXCEPT !.raised = TRUE]
    ELSE IF NoUserData(user_data) THEN GenericMetaPrompt
    ELSE LET profile == GenerateUserProfile(user_data)
             financial == GenerateFinancialContext(user_data)
             transaction == GenerateTransactionContext(user_data)
         IN IF financial.raised \/ transaction.raised
            THEN [GenericMetaPrompt EXCEPT !.raised = TRUE,
                                          !.section_raised = TRUE]
            ELSE [raised |-> FALSE, kind |-> "personalized",
                  text |-> <<"You are a personalized financial wellness assistant for">>
                           \o financial.text \o transaction.text,
                  annual_income |-> profile.annual_income,
                  account_balance |-> financial.account_balance,
                  credit_score |-> financial.credit_score,
                  pcts |-> financial.pcts, section_raised |-> FALSE]

\* generate_meta_prompt with its except clause removed
GenerateMetaPromptUnguarded(user_data) == GenerateMetaPromptBody(user_data)

\* generate_meta_prompt: any exception is logged and answered with the
\* generic prompt
GenerateMetaPrompt(user_data) ==
    LET body == GenerateMetaPromptBody(user_data)
    IN IF body.raised
       THEN [GenericMetaPrompt EXCEPT !.section_raised = body.section_raised]
       ELSE body

\* The records _gather_user_data may find for a user: per single-document
\* collection none or one with its numeric field absent, malformed or a
\* number; up to MaxInv investments of two types; no or one recent
\* transaction; a database that fails or answers.  Added to these, users
\* with investments only: one record per investment type of any subset of
\* MaxTypes types, worth 0, 1 or 2.
UserData ==
    LET FieldValues == {Missing, Malformed, Num(5)}
        Demographics ==
            {[present |-> FALSE, annual_income |-> Missing]}
                \cup {[present |-> TRUE, annual_income |-> x] : x \in FieldValues}
        Accounts ==
            {[present |-> FALSE, account_balance |-> Missing]}
                \cup {[present |-> TRUE, account_balance |-> x] : x \in FieldValues}
        Credits ==
            {[present |-> FALSE, credit_score |-> Missing]}
                \cup {[present |-> TRUE, credit_score |-> x] : x \in FieldValues}
        Transactions ==
            {<<>>} \cup {<<[amount |-> x]>> :
                            x \in {Missing, Malformed, Num(0 - 5)}}
        SmallPortfolios ==
            UNION {[1..n -> [investment_type : {1, 2},
                             current_value : {Missing, Malformed, Num(1)},
                             amount : {Num(1)}]] : n \in 0..MaxInv}
        TypePortfolio(f) ==
            LET present == SelectSeq([t \in 1..MaxTypes |-> t],
                                     LAMBDA t : f[t] > 0)
            IN [i \in 1..Len(present) |->
                   [investment_type |-> present[i],
                    current_value |-> Num(f[present[i]] - 1),
                    amount |-> Num(1)]]
        OnlyInvestments(investments) ==
            [db_error |-> FALSE,
             demographics |-> [present |-> FALSE, annual_income |-> Missing],
             account |-> [present |-> FALSE, account_balance |-> Missing],
             credit |-> [present |-> FALSE, credit_score |-> Missing],
             investments |-> investments, transactions |-> <<>>]
    IN [db_error : BOOLEAN, demographics : Demographics, account : Accounts,
        credit : Credits, investments : SmallPortfolios,
        transactions : Transactions]
           \cup {OnlyInvestments(TypePortfolio(f)) :
                    f \in [1..MaxTypes -> 0..3]}

\* One call of generate_meta_prompt for the user whose data is mp.user_data.
GenerateMetaPromptCall ==
    /\ ~mp.called
    /\ mp' = [called |-> TRUE, user_data |-> mp.user_data,
              result |-> GenerateMetaPrompt(mp.user_data)]
    /\ UNCHANGED <<llmVars, chatVars, svcVars, userVars, calls,
                   onboarding_sessions, onb, tailVars>>

InitPrompt ==
    /\ settings = NoSettings
    /\ environ = NoKey
    /\ llm = NoLlm
    /\ InitChat
    /\ InitSvc
    /\ InitUsers
    /\ QuietCalls
    /\ QuietOnboarding
    /\ QuietTail
    /\ mp \in {[called |-> FALSE, user_data |-> d] : d \in UserData}

SpecPrompt == InitPrompt /\ [][GenerateMetaPromptCall]_vars

\* ---------------------------------------------------------- onboarding
\* The session ids uuid4 has handed out or will, and the session_id of a
\* request that names none.
SessionIds == {"s1"}
NoSessionId == ""

NoSession == [exists |-> FALSE, user_id |-> "", messages |-> <<>>,
              complete |-> FALSE]

IdleOnb == [pc |-> "idle", caller |-> "", sid |-> NoSessionId,
            should_complete |-> FALSE, status |-> 0, complete |-> FALSE]

\* session_id is usable: `not session_id or session_id not in
\* onboarding_sessions` is false
SessionFound(sid) ==
    /\ sid # NoSessionId
    /\ onboarding_sessions[sid].exists

\* start_onboarding: the session is stored under a fresh uuid with the first
\* question as its only message; no client knows the id before it returns.
StartOnboarding(u, sid) ==
    /\ ~onboarding_sessions[sid].exists
    /\ onboarding_sessions' =
          [onboarding_sessions EXCEPT ![sid] =
              [exists |-> TRUE, user_id |-> u,
               messages |-> <<[role |-> "system", by |-> 0]>>,
               complete |-> FALSE]]
    /\ UNCHANGED <<llmVars, chatVars, svcVars, userVars, calls, mp, onb,
                   tailVars>>

\* turn_count that counts the bot messages too
TurnCountAll(messages) == Len(messages)

\* sum(1 for msg in session["messages"] if msg["role"] == "user")
TurnCount(messages) ==
    Cardinality({k \in 1..Len(messages) : messages[k].role = "user"})

\* The turn from which update_onboarding completes the session.
CompleteAfter == 4

\* update_onboarding that appends the user message before it validates the
\* owner
UpdateReceiveUnchecked(r, u, sid) ==
    /\ onb.upd[r].pc = "idle"
    /\ \A q \in 1..(r - 1) : onb.upd[q].pc # "idle"
    /\ IF ~SessionFound(sid)
       THEN /\ onb' = [onb EXCEPT !.upd[r] =
                         [IdleOnb EXCEPT !.pc = "done", !.caller = u,
                                         !.sid = sid, !.status = 404]]
            /\ UNCHANGED onboarding_sessions
       ELSE LET messages == Append(onboarding_sessions[sid].messages,
                                   [role |-> "user", by |-> r])
                owned == onboarding_sessions[sid].user_id = u
            IN /\ onboarding_sessions' =
                     [onboarding_sessions EXCEPT ![sid].messages = messages]
               /\ onb' = [onb EXCEPT !.upd[r] =
                     [IdleOnb EXCEPT
                        !.pc = IF owned THEN "llm" ELSE "done",
                        !.caller = u, !.sid = sid,
                        !.status = IF owned THEN 0 ELSE 403,
                        !.should_complete =
                            owned /\ TurnCount(messages) >= CompleteAfter]]
    /\ UNCHANGED <<llmVars, chatVars, svcVars, userVars, calls, mp,
                   tailVars>>

\* update_onboarding up to its await: 404 for a session that is not in the
\* store, 403 for another user's session, else the user message is appended
\* and the turns are counted.  Requests are numbered in arrival order.
UpdateReceive(r, u, sid) ==
    /\ onb.upd[r].pc = "idle"
    /\ \A q \in 1..(r - 1) : onb.upd[q].pc # "idle"
    /\ IF ~SessionFound(sid)
       THEN /\ onb' = [onb EXCEPT !.upd[r] =
                         [IdleOnb EXCEPT !.pc = "done", !.caller = u,
                                         !.sid = sid, !.status = 404]]
            /\ UNCHANGED onboarding_sessions
       ELSE IF onboarding_sessions[sid].user_id # u
       THEN /\ onb' = [onb EXCEPT !.upd[r] =
                         [IdleOnb EXCEPT !.pc = "done", !.caller = u,
                                         !.sid = sid, !.status = 403]]
            /\ UNCHANGED onboarding_sessions
       ELSE LET messages == Append(onboarding_sessions[sid].messages,
                                   [role |-> "user", by |-> r])
            IN /\ onboarding_sessions' =
                     [onboarding_sessions EXCEPT ![sid].messages = messages]
               /\ onb' = [onb EXCEPT !.upd[r] =
                     [IdleOnb EXCEPT
                        !.pc = "llm", !.caller = u, !.sid = sid,
                        !.should_complete =
                            TurnCount(messages) >= CompleteAfter]]
    /\ UNCHANGED <<llmVars, chatVars, svcVars, userVars, calls, mp,
                   tailVars>>

\* update_onboarding after its await: the bot response (the provider's text
\* or, when generate_response raised, the canned sentence) is appended,
\* complete is stored and reported.
UpdateReply(r) ==
    /\ onb.upd[r].pc = "llm"
    /\ LET sid == onb.upd[r].sid IN
       onboarding_sessions' =
          [onboarding_sessions EXCEPT
             ![sid].messages = Append(@, [role |-> "system", by |-> r]),
             ![sid].complete = onb.upd[r].should_complete]
    /\ onb' = [onb EXCEPT !.upd[r].pc = "done", !.upd[r].status = 200,
                          !.upd[r].complete = onb.upd[r].should_complete]
    /\ UNCHANGED <<llmVars, chatVars, svcVars, userVars, calls, mp,
                   tailVars>>

\* complete_onboarding up to its await: the same validation, then the
\* session is marked complete.
CompleteReceive(u, sid) ==
    /\ onb.cmp.pc = "idle"
    /\ IF ~SessionFound(sid)
       THEN /\ onb' = [onb EXCEPT !.cmp =
                         [IdleOnb EXCEPT !.pc = "done", !.caller = u,
                                         !.sid = sid, !.status = 404]]
            /\ UNCHANGED onboarding_sessions
       ELSE IF onboarding_sessions[sid].user_id # u
       THEN /\ onb' = [onb EXCEPT !.cmp =
                         [IdleOnb EXCEPT !.pc = "done", !.caller = u,
                                         !.sid = sid, !.status = 403]]
            /\ UNCHANGED onboarding_sessions
       ELSE /\ onboarding_sessions' =
                  [onboarding_sessions EXCEPT ![sid].complete = TRUE]
            /\ onb' = [onb EXCEPT !.cmp =
                         [IdleOnb EXCEPT !.pc = "llm", !.caller = u,
                                         !.sid = sid]]
    /\ UNCHANGED <<llmVars, chatVars, svcVars, userVars, calls, mp,
                   tailVars>>

\* complete_onboarding after its await: the final message (the provider's
\* text or the canned sentence) is appended.
CompleteReply ==
    /\ onb.cmp.pc = "llm"
    /\ onboarding_sessions' =
          [onboarding_sessions EXCEPT
             ![onb.cmp.sid].messages =
                 Append(@, [role |-> "system", by |-> 0])]
    /\ onb' = [onb EXCEPT !.cmp.pc = "done", !.cmp.status = 200,
                          !.cmp.complete = TRUE]
    /\ UNCHANGED <<llmVars, chatVars, svcVars, userVars, calls, mp,
                   tailVars>>

InitOnboarding ==
    /\ settings = NoSettings
    /\ environ = NoKey
    /\ llm = NoLlm
    /\ InitChat
    /\ InitSvc
    /\ InitUsers
    /\ QuietCalls
    /\ QuietPrompt
    /\ QuietTail
    /\ onboarding_sessions = [sid \in SessionIds |-> NoSession]
    /\ onb = [upd |-> [r \in 1..MaxUpd |-> IdleOnb], cmp |-> IdleOnb]

NextOnboarding ==
    \/ \E u \in UserIds, sid \in SessionIds : StartOnboarding(u, sid)
    \/ \E r \in 1..MaxUpd, u \in UserIds,
          sid \in SessionIds \cup {NoSessionId} : UpdateReceive(r, u, sid)
    \/ \E r \in 1..MaxUpd : UpdateReply(r)
    \/ \E u \in UserIds, sid \in SessionIds \cup {NoSessionId} :
          CompleteReceive(u, sid)
    \/ CompleteReply

SpecOnboarding == InitOnboarding /\ [][NextOnboarding]_vars

\* ------------------------------------------------ properties: LLM service
LiveProviders == {"google", "mistral", "huggingface", "openai"}

ProviderOrder == <<"google", "mistral", "huggingface", "openai">>

\* A key is configured when it is set and is not the provider's placeholder.
Configured(key, placeholder) == key # NoKey /\ key # placeholder

\* Which of the four keys the constructed service holds are configured, in
\* priority order.
ServiceConfigured ==
    <<Configured(llm.service.google_api_key, PlaceholderGoogle),
      Configured(llm.service.mistral_api_key, PlaceholderMistral),
      Configured(llm.service.huggingface_token, PlaceholderHuggingface),
      Configured(llm.service.openai_api_key, PlaceholderOpenai)>>

\* C10: the provider of a constructed LLMService is the first of Google,
\* Mistral, HuggingFace, OpenAI whose key is configured (a placeholder value
\* counts as not configured), and it is the mock provider exactly when none
\* of the four is configured.
C10_ProviderPriority ==
    llm.service.constructed =>
        /\ \A i \in 1..4 :
              (ServiceConfigured[i] /\ \A j \in 1..(i - 1) : ~ServiceConfigured[j])
                  => llm.service.provider = ProviderOrder[i]
        /\ (llm.service.provider = "mock")
              <=> (\A i \in 1..4 : ~ServiceConfigured[i])

\* A service built with a placeholder Google key and real Mistral and OpenAI
\* keys: the placeholder is skipped and Mistral is chosen before OpenAI.
C10_Witness ==
    /\ llm.service.constructed
    /\ llm.service.google_api_key = PlaceholderGoogle
    /\ Configured(llm.service.mistral_api_key, PlaceholderMistral)
    /\ Configured(llm.service.openai_api_key, PlaceholderOpenai)
    /\ llm.service.provider = "mistral"

\* C3: when the HTTP call of the selected live provider raises, the caller of
\* generate_response gets the mock generator's keyword-matched response for
\* the same messages, and no exception.
C3_ProviderExceptionGivesMockResponse ==
    (/\ llm.called
     /\ llm.service.provider \in LiveProviders
     /\ llm.outcomes[1] = "http_error")
        => /\ ~llm.result.raised
           /\ llm.result.text = GenerateMockResponse(llm.messages)

\* The number of leading attempts whose HTTP call raises.
LeadingErrors(outcomes) ==
    IF \A i \in 1..Len(outcomes) : outcomes[i] = "http_error"
    THEN Len(outcomes)
    ELSE (CHOOSE i \in 1..Len(outcomes) :
              /\ outcomes[i] # "http_error"
              /\ \A j \in 1..(i - 1) : outcomes[j] = "http_error") - 1

\* C4: when HTTP calls of the live provider raise, generate_response calls
\* again, up to 3 calls in total, sleeping the exponential backoff between
\* two calls, before it answers with the fallback.
C4_RetriesTransientFailure ==
    (/\ llm.called
     /\ llm.service.provider \in LiveProviders)
        => LET k == LeadingErrors(llm.outcomes) IN
           /\ llm.result.http_calls = Min(k + 1, StopAfterAttempt)
           /\ k >= 1 => llm.result.slept >= WaitMin

\* C17: with no API key configured, generate_response returns, for every
\* message list and without raising, a non-empty text of the keyword-response
\* table, and when the last message contains 'invest' in any letter case it
\* returns the response that mentions 'diversify'.
C17_MockKeywordResponse ==
    (/\ llm.called
     /\ \A i \in 1..4 : ~ServiceConfigured[i]) =>
        /\ ~llm.result.raised
        /\ llm.result.text # <<>>
        /\ llm.result.text \in KeywordResponses
        /\ (/\ llm.messages # <<>>
            /\ Contains(Lower(Last(llm.messages).content), KwInvest))
               => llm.result.text = RespInvest

\* C17 witness: a service without any key was asked about 'Invest' and
\* answered with the diversify response.
C17_Witness ==
    /\ llm.called
    /\ \A i \in 1..4 : ~ServiceConfigured[i]
    /\ llm.messages # <<>>
    /\ Last(llm.messages).content = TxtInvest
    /\ llm.result.text = RespInvest

\* ---------------------------------------------------- properties: POST /chat
\* The message that request r stored as its n-th ("in" or "out") is in the
\* collection.
Stored(r, n) ==
    \E k \in 1..Len(chat_messages) : chat_messages[k].id = MsgId(r, n)

StepsOf(r) == {req[r].steps[k] : k \in 1..Len(req[r].steps)}

\* C1: a POST /chat for an existing conversation whose owner is not the
\* caller ends with 403, and the request has inserted no message and has not
\* written the conversation record.
C1_NonOwnerForbidden ==
    \A r \in Reqs :
        (/\ req[r].pc \notin {"idle", "authorize"}
         /\ req[r].owner # ""
         /\ req[r].owner # req[r].caller)
            => /\ req[r].pc = "done"
               /\ req[r].status = 403
               /\ ~req[r].wrote
               /\ ~Stored(r, "in")
               /\ ~Stored(r, "out")

\* A non-owner has been refused on a conversation that is still there.
C1_Witness ==
    \E r \in Reqs :
        /\ req[r].pc = "done"
        /\ req[r].status = 403
        /\ req[r].owner # req[r].caller
        /\ conversations[req[r].cid].state = "live"

DegradedReplies ==
    KeywordResponses \cup {ApologyIssue, ApologyGoogle, ApologyError}

\* C5: a request whose provider call failed (and whose database calls did
\* not) is never answered 5xx: it goes on to persist a degraded assistant
\* reply and ends with 200.
C5_ProviderFailureNot5xx ==
    \A r \in Reqs :
        (req[r].llm_failed /\ ~req[r].db_failed)
            => /\ req[r].pc \in {"touch_out", "insert_out", "done"}
               /\ req[r].status \in {0, 200}
               /\ req[r].ai \in DegradedReplies
               /\ req[r].pc = "done" => req[r].status = 200

\* A request whose provider call failed has ended with 200 and its degraded
\* reply is stored as the assistant message.
C5_Witness ==
    \E r \in Reqs :
        /\ req[r].pc = "done"
        /\ req[r].llm_failed
        /\ req[r].status = 200
        /\ \E k \in 1..Len(chat_messages) :
              /\ chat_messages[k].id = MsgId(r, "out")
              /\ chat_messages[k].role = "assistant"
              /\ chat_messages[k].content \in DegradedReplies

CanonicalSteps ==
    <<"fetch", "authorize", "persist_in", "context", "provider",
      "persist_out", "return">>

\* The steps a request has completed, without the exception that ended it.
CompletedSteps(r) ==
    LET st == req[r].steps IN
    IF st # <<>> /\ Last(st) = "raise" THEN SubSeq(st, 1, Len(st) - 1) ELSE st

\* C6: the steps of every POST /chat happen in the order fetch, owner check,
\* persist inbound, build context, invoke provider, persist assistant
\* message, return; nothing is written before the owner check and the
\* provider is not invoked before the inbound message is stored.
C6_StepOrder ==
    \A r \in Reqs :
        /\ IsPrefix(CompletedSteps(r), CanonicalSteps)
        /\ req[r].status = 200 => req[r].steps = CanonicalSteps
        /\ req[r].wrote => "authorize" \in StepsOf(r)
        /\ (Stored(r, "in") \/ Stored(r, "out")) => "authorize" \in StepsOf(r)
        /\ "provider" \in StepsOf(r) => "persist_in" \in StepsOf(r)
        /\ req[r].pc \in {"provider", "touch_out", "insert_out"}
              => \/ Stored(r, "in")
                 \/ conversations[req[r].cid].state = "deleted"

\* A request has gone through all seven steps.
C6_Witness ==
    \E r \in Reqs :
        /\ req[r].status = 200
        /\ req[r].steps = CanonicalSteps
        /\ Stored(r, "in")
        /\ Stored(r, "out")

\* What GET /conversations/{id}/messages returns with its default paging.
MessagesView(c) == GetConversationMessages(c, 0, DefaultMessagesLimit)

\* C7: while a conversation exists, every step of every interleaving of
\* POST /chat and PUT /conversations/{id} requests leaves the list that
\* get_messages returns a prefix of the list it returns afterwards: messages
\* keep content and position, new ones come after all earlier ones.
C7_AppendOnly ==
    [][\A c \in ConvIds :
          (conversations[c].state = "live" /\ conversations'[c].state = "live")
              => IsPrefix(MessagesView(c), MessagesView(c)')]_vars

\* Two stored messages of one conversation of which the one that landed
\* later was stamped earlier: their appends overlapped.
OverlappedPair(i, j) ==
    /\ i < j
    /\ chat_messages[i].conversation_id = chat_messages[j].conversation_id
    /\ chat_messages[i].created_at > chat_messages[j].created_at

\* C8 as stated: when two appends on a conversation overlap, only the write
\* that lands last is retained, so the collection never holds both messages
\* of two overlapped appends.
C8_LastWriteWins ==
    \A i, j \in 1..Len(chat_messages) : ~OverlappedPair(i, j)

\* C8, amended: requests on one conversation are not serialized, and every
\* append that landed is retained while the conversation exists, whatever
\* other appends it overlapped with.
C8_OverlappingAppendsRetained ==
    \A r \in Reqs :
        (req[r].pc # "idle" /\ conversations[req[r].cid].state = "live")
            => /\ "persist_in" \in StepsOf(r) => Stored(r, "in")
               /\ "persist_out" \in StepsOf(r) => Stored(r, "out")

\* Two requests on one conversation have overlapped and all four messages
\* are in the collection.
C8_Witness ==
    /\ \E i, j \in 1..Len(chat_messages) : OverlappedPair(i, j)
    /\ \A r \in Reqs : req[r].status = 200 /\ Stored(r, "in") /\ Stored(r, "out")

\* C12: the context that a POST /chat hands to the provider is the newest
\* messages of the conversation as it stands when the context is read, at
\* most 10 of them, oldest first, and the inbound message that this request
\* stored is one of them.
C12_ContextWindow ==
    [][\A r \in Reqs :
          (req[r].pc = "context" /\ req'[r].pc = "provider") =>
              LET sorted == SortByCreatedAt(FindByConversation(req[r].cid))
                  n == Len(sorted)
                  window == SubSeq(sorted, IF n > 10 THEN n - 9 ELSE 1, n)
              IN /\ Len(req'[r].context) <= 10
                 /\ req'[r].context =
                       [i \in 1..Len(window) |->
                           [role |-> window[i].role,
                            content |-> window[i].content]]
                 /\ \E i \in 1..Len(window) : window[i].id = MsgId(r, "in")]_vars

\* ------------------------------------------------ properties: ChatService
\* The assistant messages that call i has stored in the conversation.
StoredBy(i) ==
    {k \in 1..Len(conv_docs.messages) :
        /\ conv_docs.messages[k].by = i
        /\ conv_docs.messages[k].role = "assistant"}

\* C2: a chat request whose LLM call failed and that was answered with the
\* fallback has added exactly one assistant message to its conversation,
\* never zero and never two.
C2_FallbackStoredOnce ==
    \A i \in SvcIds :
        (/\ svc[i].pc = "done"
         /\ svc[i].returned = "fallback"
         /\ conv_docs.state = "live")
            => Cardinality(StoredBy(i)) = 1

\* ----------------------------------------------- properties: registration
\* C9: the users collection holds at most one record per user_id and at most
\* one record per email, at every moment of any interleaving of registration
\* requests and startup initialization.
C9_UsersUnique ==
    \A j, k \in 1..Len(users) :
        j # k =>
            /\ users[j].user_id # users[k].user_id
            /\ users[j].email # NoEmail => users[j].email # users[k].email

\* ---------------------------------------------- properties: process lifetime
\* C11: the provider is chosen once: every generate call of the process
\* lifetime uses the same provider, whatever was served in between.
C11_ProviderChosenOnce ==
    \A i, j \in 1..Len(calls) : calls[i] = calls[j]

\* ---------------------------------------- properties: meta-prompt builder
\* float() refuses x or finds it absent
Unreadable(x) == x.kind # "num"

Mentions(text, phrase) == \E i \in 1..Len(text) : text[i] = phrase

RECURSIVE SumOver(_, _)
SumOver(f, S) ==
    IF S = {} THEN 0
    ELSE LET t == CHOOSE x \in S : TRUE IN f[t] + SumOver(f, S \ {t})

\* C13: generate_meta_prompt never raises; it always returns prompt text,
\* and for a user none of whose collections holds a record that text is the
\* generic prompt.
C13_MetaPromptNeverRaises ==
    mp.called =>
        /\ ~mp.result.raised
        /\ mp.result.text # <<>>
        /\ NoUserData(mp.user_data) => mp.result.kind = "generic"

\* C13 witness: a call for a user without any record returned the generic
\* prompt.
C13_Witness ==
    /\ mp.called
    /\ ~mp.user_data.db_error
    /\ NoUserData(mp.user_data)
    /\ mp.result.kind = "generic"
    /\ ~mp.result.raised

\* C14: whenever the user has some record and the database answers, no
\* section builder raises, the prompt is the personalized one, and every
\* missing or malformed numeric field is rendered in it as zero.
C14_UnreadableFieldsRenderZero ==
    (/\ mp.called
     /\ ~mp.user_data.db_error
     /\ ~NoUserData(mp.user_data)) =>
        /\ ~mp.result.section_raised
        /\ mp.result.kind = "personalized"
        /\ Unreadable(mp.user_data.demographics.annual_income)
              => mp.result.annual_income = 0
        /\ Unreadable(mp.user_data.account.account_balance)
              => mp.result.account_balance = 0
        /\ Unreadable(mp.user_data.credit.credit_score)
              => mp.result.credit_score = 0

\* C15: the prompt returned for a user with zero investment records
\* contains the literal 'No current investments'.
C15_NoInvestmentsLiteral ==
    (mp.called /\ mp.user_data.investments = <<>>) =>
        Mentions(mp.result.text, "No current investments")

\* C16: for a user with at least one investment record, all of them with
\* readable values, and nothing else that fails, the rendered per-type
\* percentages (in tenths of a percent) sum to 100 within 0.1.
C16_AllocationSumsTo100 ==
    (/\ mp.called
     /\ ~mp.user_data.db_error
     /\ mp.user_data.investments # <<>>
     /\ \A i \in 1..Len(mp.user_data.investments) :
            ~Unreadable(mp.user_data.investments[i].current_value)
     /\ \A i \in 1..Len(mp.user_data.transactions) :
            ~Unreadable(mp.user_data.transactions[i].amount)) =>
        /\ mp.result.kind = "personalized"
        /\ LET total == SumOver(mp.result.pcts, DOMAIN mp.result.pcts)
           IN total >= 999 /\ total <= 1001

\* ------------------------------------------------- properties: onboarding
\* C18: an update_onboarding request that names no session or one that is
\* not in the store is answered 404, one that names another user's session
\* is answered 403, and in both cases it leaves the session store as it was:
\* no session created, no message added, no complete flag changed.
C18_RejectedUpdateChangesNothing ==
    [][\A r \in 1..MaxUpd :
          (onb.upd[r].pc = "idle" /\ onb'.upd[r].pc # "idle") =>
              LET sid == onb'.upd[r].sid
                  unknown == \/ sid = NoSessionId
                             \/ ~onboarding_sessions[sid].exists
                  foreign == /\ ~unknown
                             /\ onboarding_sessions[sid].user_id
                                    # onb'.upd[r].caller
              IN /\ unknown => /\ onb'.upd[r].status = 404
                               /\ onboarding_sessions' = onboarding_sessions
                 /\ foreign => /\ onb'.upd[r].status = 403
                               /\ onboarding_sessions' = onboarding_sessions
                 /\ onb'.upd[r].status \in {403, 404} => unknown \/ foreign]_vars

\* C18 witness: one update was answered 404, another was answered 403 on a
\* stored session of another user.
C18_Witness ==
    \E r, q \in 1..MaxUpd :
        /\ onb.upd[r].pc = "done" /\ onb.upd[r].status = 404
        /\ onb.upd[q].pc = "done" /\ onb.upd[q].status = 403
        /\ onboarding_sessions[onb.upd[q].sid].exists
        /\ onboarding_sessions[onb.upd[q].sid].user_id # onb.upd[q].caller

\* C19: when update_onboarding answers, the complete flag it reports is the
\* one it stores, and it is true exactly when the message it received is
\* the fourth or a later user message of the session.
C19_CompleteFromFourthTurn ==
    [][\A r \in 1..MaxUpd :
          (onb.upd[r].pc = "llm" /\ onb'.upd[r].pc = "done") =>
              LET sid == onb.upd[r].sid
                  messages == onboarding_sessions'[sid].messages
                  own == CHOOSE k \in 1..Len(messages) :
                            messages[k] = [role |-> "user", by |-> r]
                  turn == Cardinality({k \in 1..own :
                                          messages[k].role = "user"})
              IN /\ onb'.upd[r].status = 200
                 /\ onb'.upd[r].complete = (turn >= 4)
                 /\ onboarding_sessions'[sid].complete
                        = onb'.upd[r].complete]_vars

\* C19 witness: one update was answered with complete = false, a later one
\* with complete = true, and the session is stored as complete.
C19_Witness ==
    \E r, q \in 1..MaxUpd :
        /\ onb.upd[r].pc = "done" /\ onb.upd[r].status = 200
        /\ ~onb.upd[r].complete
        /\ onb.upd[q].pc = "done" /\ onb.upd[q].status = 200
        /\ onb.upd[q].complete
        /\ onboarding_sessions[onb.upd[q].sid].complete
        /\ TurnCount(onboarding_sessions[onb.upd[q].sid].messages) = 4

\* C20: every update_onboarding answered 200 has added exactly two entries
\* to its session's messages: its user message and, right after it, one
\* system reply.
C20_UserMessageThenReply ==
    \A r \in 1..MaxUpd :
        (onb.upd[r].pc = "done" /\ onb.upd[r].status = 200) =>
            LET messages == onboarding_sessions[onb.upd[r].sid].messages
            IN /\ Cardinality({k \in 1..Len(messages) :
                                  messages[k].by = r}) = 2
               /\ \E k \in 1..(Len(messages) - 1) :
                     /\ messages[k] = [role |-> "user", by |-> r]
                     /\ messages[k + 1] = [role |-> "system", by |-> r]

\* Everything but the five single-call models at rest.
QuietCore ==
    /\ settings = NoSettings
    /\ environ = NoKey
    /\ llm = NoLlm
    /\ InitChat
    /\ InitSvc
    /\ InitUsers
    /\ QuietCalls
    /\ QuietPrompt
    /\ QuietOnboarding

\* ------------------------------------------------------------------ login
\* One login attempt against POST /api/auth/token (app/api/auth.py) or
\* POST /login (app/api/endpoints/auth.py).  A username or password of ""
\* stands for a field that is absent or empty; "known" is a stored user,
\* "right" the password whose hash that user holds.

\* login_for_access_token.  authenticate_user looks the user up and then
\* verifies the password.  HTTPException is re-raised as it is; any other
\* exception is answered 500.
LoginForAccessToken ==
    /\ login.pc = "received"
    /\ login.endpoint = "token"
    /\ LET authenticate_user ==
               login.username = "known" /\ login.password = "right"
           status ==
               IF login.content_type = "bad_json" THEN 400
               ELSE IF login.username = "" \/ login.password = "" THEN 400
               ELSE IF login.db = "raises" THEN 500
               ELSE IF ~authenticate_user THEN 401
               ELSE 200
       IN  login' = [login EXCEPT !.pc = "done", !.status = status]
    /\ UNCHANGED <<llmVars, chatVars, svcVars, userVars, calls, mp,
                   onboarding_sessions, onb, investment, rec, document,
                   mongo>>

\* login.  OAuth2PasswordRequestForm requires both form fields, so a request
\* without them is refused with 422 before the body runs.  Inside the body
\* both HTTPException(401) are raised within the try block, whose only
\* handler is `except Exception`, which answers 500.
Login ==
    /\ login.pc = "received"
    /\ login.endpoint = "login"
    /\ LET raised ==
               IF login.db = "raises" THEN "Exception"
               ELSE IF login.username # "known" THEN "HTTPException(401)"
               ELSE IF login.password # "right" THEN "HTTPException(401)"
               ELSE "none"
           status ==
               IF \/ login.content_type # "form"
                  \/ login.username = ""
                  \/ login.password = "" THEN 422
               ELSE IF raised # "none" THEN 500
               ELSE 200
       IN  login' = [login EXCEPT !.pc = "done", !.status = status]
    /\ UNCHANGED <<llmVars, chatVars, svcVars, userVars, calls, mp,
                   onboarding_sessions, onb, investment, rec, document,
                   mongo>>

InitLogin ==
    /\ QuietCore
    /\ investment = [pc |-> "idle"] /\ rec = [pc |-> "idle"]
    /\ document = [pc |-> "idle"] /\ mongo = [pc |-> "idle"]
    /\ login \in {l \in [pc : {"received"},
                         endpoint : {"token", "login"},
                         content_type : {"form", "json", "bad_json"},
                         username : {"", "known", "unknown"},
                         password : {"", "right", "wrong"},
                         db : {"ok", "raises"},
                         status : {0}] :
                     l.content_type = "bad_json"
                         => (l.username = "" /\ l.password = "")}

SpecLogin ==
    /\ InitLogin
    /\ [][LoginForAccessToken \/ Login]_vars

\* ------------------------------------------------------------- investments
\* One POST /investments request followed by a fetch of the new record by
\* its id (FinancialRepository.get_investment).  The document handed to
\* insert_one is investment.dict(by_alias=True): each field keeps its Python
\* type, so start_date is a datetime.date.

\* create_investment (route and repository).  BsonEncode is what the driver's
\* encoder makes of one value: a float becomes a double, a str-based Enum
\* member the string of its value, an ObjectId an objectId; a datetime.date
\* has no BSON type (InvalidDocument is raised).  The route has no handler
\* for an exception of the repository, which is answered 500.
CreateInvestment ==
    /\ investment.pc = "received"
    /\ LET data == investment.data
           record == [_id |-> [kind |-> "ObjectId", v |-> "oid1"],
                      investment_type |-> data.investment_type,
                      amount |-> data.amount,
                      current_value |-> data.current_value,
                      start_date |-> data.start_date]
           BsonEncode(value) ==
               CASE value.kind = "num" -> [bson |-> "double", v |-> value.v]
                 [] value.kind = "enum" -> [bson |-> "string", v |-> value.v]
                 [] value.kind = "ObjectId" ->
                        [bson |-> "objectId", v |-> value.v]
                 [] value.kind = "date" ->
                        [bson |-> "InvalidDocument", v |-> value.v]
           encoded == [f \in DOMAIN record |-> BsonEncode(record[f])]
           raises == \E f \in DOMAIN encoded :
                         encoded[f].bson = "InvalidDocument"
       IN  investment' =
               [investment EXCEPT
                   !.pc = "created",
                   !.id = "oid1",
                   !.status = IF raises THEN 500 ELSE 201,
                   !.investments_collection =
                       IF raises THEN @ ELSE Append(@, encoded)]
    /\ UNCHANGED <<llmVars, chatVars, svcVars, userVars, calls, mp,
                   onboarding_sessions, onb, login, rec, document, mongo>>

\* get_investment: find_one by _id, the document parsed back into an
\* Investment (a double into a float, a string into the Enum member of that
\* value); None when no document has the id.
GetInvestment ==
    /\ investment.pc = "created"
    /\ LET coll == investment.investments_collection
           found == {k \in 1..Len(coll) : coll[k]._id.v = investment.id}
           Parse(d) ==
               [investment_type |-> [kind |-> "enum",
                                     v |-> d.investment_type.v],
                amount |-> [kind |-> "num", v |-> d.amount.v],
                current_value |-> [kind |-> "num", v |-> d.current_value.v]]
       IN  investment' =
               [investment EXCEPT
                   !.pc = "fetched",
                   !.fetched =
                       IF found = {} THEN [kind |-> "None"]
                       ELSE Parse(coll[CHOOSE k \in found : TRUE])]
    /\ UNCHANGED <<llmVars, chatVars, svcVars, userVars, calls, mp,
                   onboarding_sessions, onb, login, rec, document, mongo>>

InitInvestment ==
    /\ QuietCore
    /\ login = [pc |-> "idle"] /\ rec = [pc |-> "idle"]
    /\ document = [pc |-> "idle"] /\ mongo = [pc |-> "idle"]
    /\ investment \in
           [pc : {"received"},
            data : [investment_type :
                        {[kind |-> "enum", v |-> t] :
                            t \in {"stocks", "bonds", "etfs", "mutual_funds",
                                   "real_estate", "cryptocurrency", "other"}},
                    amount : {Num(0), Num(1), Num(2)},
                    current_value : {Num(0), Num(1), Num(3)},
                    start_date : {[kind |-> "date", v |-> "2024-01-01"]}],
            id : {""},
            status : {0},
            investments_collection : {<<>>},
            fetched : {[kind |-> "None"]}]

SpecInvestment ==
    /\ InitInvestment
    /\ [][CreateInvestment \/ GetInvestment]_vars

\* --------------------------------------------------------- recommendations
\* One call of RecommendationEngine._generate_personalized_recommendations.
\* A recommendation and a product are known by their name; the names of the
\* relevant products are 1..n, and the LLM's reply may also name products
\* that are not among them.

MaxParsed == 4      \* the longest list parsed from one LLM reply
SimilarityK == 5    \* similarity_search(meta_prompt, k=5)

\* The awaited LLM call and _parse_recommendations; an exception of the call
\* is answered with _generate_generic_recommendations(), which returns three
\* recommendations.
PersonalizedParse ==
    /\ rec.pc = "call"
    /\ rec' = IF rec.llm = "raises"
              THEN [rec EXCEPT !.pc = "done",
                               !.result = <<"g1", "g2", "g3">>]
              ELSE [rec EXCEPT !.pc = "while",
                               !.recommended_products = rec.parsed]
    /\ UNCHANGED <<llmVars, chatVars, svcVars, userVars, calls, mp,
                   onboarding_sessions, onb, login, investment, document,
                   mongo>>

\* `while len(recommended_products) < 3:` either starts one more pass of the
\* for loop or falls through to `return recommended_products[:3]`.
PersonalizedWhile ==
    /\ rec.pc = "while"
    /\ rec' = IF Len(rec.recommended_products) < 3
              THEN [rec EXCEPT !.pc = "for", !.i = 1]
              ELSE [rec EXCEPT !.pc = "done",
                               !.result = SubSeq(rec.recommended_products,
                                                 1, 3)]
    /\ UNCHANGED <<llmVars, chatVars, svcVars, userVars, calls, mp,
                   onboarding_sessions, onb, login, investment, document,
                   mongo>>

\* One iteration of `for product in relevant_products:`; an exhausted
\* iterator goes back to the while test.
PersonalizedFor ==
    /\ rec.pc = "for"
    /\ IF rec.i > Len(rec.relevant_products)
       THEN rec' = [rec EXCEPT !.pc = "while"]
       ELSE LET product_name == rec.relevant_products[rec.i]
                known == \E k \in 1..Len(rec.recommended_products) :
                            rec.recommended_products[k] = product_name
                appended == IF known THEN rec.recommended_products
                            ELSE Append(rec.recommended_products,
                                        product_name)
            IN  rec' = [rec EXCEPT
                           !.recommended_products = appended,
                           !.pc = IF ~known /\ Len(appended) >= 3
                                  THEN "while" ELSE "for",
                           !.i = IF ~known /\ Len(appended) >= 3
                                 THEN @ ELSE @ + 1]
    /\ UNCHANGED <<llmVars, chatVars, svcVars, userVars, calls, mp,
                   onboarding_sessions, onb, login, investment, document,
                   mongo>>

\* The call runs to its end without an await inside the loop, so a step
\* that is possible is taken.
InitRecommend ==
    /\ QuietCore
    /\ login = [pc |-> "idle"] /\ investment = [pc |-> "idle"]
    /\ document = [pc |-> "idle"] /\ mongo = [pc |-> "idle"]
    /\ rec \in
           [pc : {"call"},
            llm : {"ok", "raises"},
            relevant_products : {[k \in 1..n |-> k] : n \in 0..SimilarityK},
            parsed : {s \in UNION {[1..n -> {1, 2, 7, 8}] :
                                      n \in 0..MaxParsed} :
                         \A a, b \in DOMAIN s : a # b => s[a] # s[b]},
            recommended_products : {<<>>},
            i : {0},
            result : {<<>>}]

SpecRecommend ==
    /\ InitRecommend
    /\ [][PersonalizedParse \/ PersonalizedWhile \/ PersonalizedFor]_vars
    /\ WF_vars(PersonalizedParse \/ PersonalizedWhile \/ PersonalizedFor)

\* ------------------------------------------------------ document processing
\* One POST /upload request and the background task process_document that
\* it schedules.  `database` is the module global of the app.database
\* package, which process_document reads through the package's synchronous
\* get_database(); `fault` names the update_processing_status call, if any,
\* on which the database raises.

\* upload_document: a file without a name is refused; otherwise the record is
\* created PENDING (create_document) and the task is added.
UploadDocument ==
    /\ document.pc = "received"
    /\ document' =
           IF document.filename = ""
           THEN [document EXCEPT !.pc = "refused", !.status = 400]
           ELSE [document EXCEPT !.pc = "scheduled", !.status = 201,
                                 !.processing_status = "pending"]
    /\ UNCHANGED <<llmVars, chatVars, svcVars, userVars, calls, mp,
                   onboarding_sessions, onb, login, investment, rec, mongo>>

\* process_document up to its first awaited update.  DocumentRepository(db)
\* reads db.documents before the try block: with db = None the task ends
\* there with AttributeError.
ProcessDocumentStart ==
    /\ document.pc = "scheduled"
    /\ document' =
           IF document.database = "None"
           THEN [document EXCEPT !.pc = "finished",
                                 !.raised = "AttributeError"]
           ELSE IF document.fault = "processing"
           THEN [document EXCEPT !.pc = "except"]
           ELSE [document EXCEPT !.pc = "processing",
                                 !.processing_status = "processing"]
    /\ UNCHANGED <<llmVars, chatVars, svcVars, userVars, calls, mp,
                   onboarding_sessions, onb, login, investment, rec, mongo>>

\* Text extraction, analysis, insights and recommendations (placeholders
\* that return dictionaries), then the update to COMPLETED.
ProcessDocumentComplete ==
    /\ document.pc = "processing"
    /\ document' =
           IF document.fault = "completed"
           THEN [document EXCEPT !.pc = "except"]
           ELSE [document EXCEPT !.pc = "analysis",
                                 !.processing_status = "completed",
                                 !.insights = [kind |-> "dict"],
                                 !.recommendations = [kind |-> "dict"]]
    /\ UNCHANGED <<llmVars, chatVars, svcVars, userVars, calls, mp,
                   onboarding_sessions, onb, login, investment, rec, mongo>>

\* create_analysis, still inside the try block: DocumentAnalysis(...) is
\* built from the insights and recommendations before anything is inserted.
\* The model declares both as List[str]: its validation accepts a list and
\* refuses a dict.
CreateAnalysis ==
    /\ document.pc = "analysis"
    /\ document' =
           IF /\ document.insights.kind = "list"
              /\ document.recommendations.kind = "list"
           THEN [document EXCEPT !.pc = "finished", !.analyses = @ + 1]
           ELSE [document EXCEPT !.pc = "except"]
    /\ UNCHANGED <<llmVars, chatVars, svcVars, userVars, calls, mp,
                   onboarding_sessions, onb, login, investment, rec, mongo>>

\* except Exception: the update to FAILED, which is not guarded itself.
ProcessDocumentExcept ==
    /\ document.pc = "except"
    /\ document' =
           IF document.fault = "failed"
           THEN [document EXCEPT !.pc = "finished", !.raised = "Exception"]
           ELSE [document EXCEPT !.pc = "finished",
                                 !.processing_status = "failed"]
    /\ UNCHANGED <<llmVars, chatVars, svcVars, userVars, calls, mp,
                   onboarding_sessions, onb, login, investment, rec, mongo>>

InitDocument ==
    /\ QuietCore
    /\ login = [pc |-> "idle"] /\ investment = [pc |-> "idle"]
    /\ rec = [pc |-> "idle"] /\ mongo = [pc |-> "idle"]
    /\ document \in
           [pc : {"received"},
            filename : {"", "a.pdf", "a.png", "a.csv"},
            database : {"None", "handle"},
            fault : {"none", "processing", "completed", "failed"},
            status : {0},
            processing_status : {"absent"},
            insights : {[kind |-> "unset"]},
            recommendations : {[kind |-> "unset"]},
            analyses : {0},
            raised : {"none"}]

SpecDocument ==
    /\ InitDocument
    /\ [][UploadDocument \/ ProcessDocumentStart \/ ProcessDocumentComplete
              \/ CreateAnalysis \/ ProcessDocumentExcept]_vars

\* ------------------------------------------------------ the MongoDB handle
\* app.database.mongodb: the module globals _mongo_client and _mongo_db, the
\* clients built so far, and the calls of get_database and connect_to_mongo
\* in flight.  A client is known by its position in `clients`; 0 is None.

MaxClients == 2     \* AsyncIOMotorClient objects built in one run
MaxCallers == 2     \* overlapping calls of get_database / connect_to_mongo

\* get_database and connect_to_mongo up to `await _mongo_db.command("ping")`.
\* get_database returns _mongo_db at once when it is not None;
\* connect_to_mongo returns at once when _mongo_client is not None, and
\* otherwise assigns both globals before it awaits.
GetDatabase(p, fn) ==
    /\ mongo.call[p].pc \in {"idle", "returned", "raised"}
    /\ IF fn = "get_database" /\ mongo._mongo_db # 0
       THEN mongo' = [mongo EXCEPT !.call[p] =
                [pc |-> "returned", fn |-> fn, handle |-> mongo._mongo_db,
                 open |-> mongo.clients[mongo._mongo_db].open,
                 pinged |-> mongo.clients[mongo._mongo_db].pinged]]
       ELSE IF mongo._mongo_client # 0
       THEN mongo' = [mongo EXCEPT !.call[p] =
                [pc |-> "returned", fn |-> fn, handle |-> mongo._mongo_db,
                 open |-> FALSE, pinged |-> FALSE]]
       ELSE /\ Len(mongo.clients) < MaxClients
            /\ mongo' = [mongo EXCEPT
                   !.clients = Append(@, [open |-> TRUE, pinged |-> FALSE]),
                   !._mongo_client = Len(mongo.clients) + 1,
                   !._mongo_db = Len(mongo.clients) + 1,
                   !.call[p] = [pc |-> "ping", fn |-> fn,
                                handle |-> Len(mongo.clients) + 1,
                                open |-> FALSE, pinged |-> FALSE]]
    /\ UNCHANGED <<llmVars, chatVars, svcVars, userVars, calls, mp,
                   onboarding_sessions, onb, login, investment, rec,
                   document>>

\* The awaited ping answers or raises; connect_to_mongo logs and re-raises,
\* leaving both globals as assigned.  get_database then returns the current
\* _mongo_db.
ConnectToMongoPing(p, ok) ==
    /\ mongo.call[p].pc = "ping"
    /\ LET n == mongo.call[p].handle
           pinged == [mongo.clients EXCEPT ![n].pinged = TRUE]
       IN  IF ok
           THEN mongo' = [mongo EXCEPT
                    !.clients = pinged,
                    !.call[p] = [@ EXCEPT
                        !.pc = "returned",
                        !.handle = IF mongo.call[p].fn = "get_database"
                                   THEN mongo._mongo_db ELSE 0,
                        !.open = pinged[mongo._mongo_db].open,
                        !.pinged = pinged[mongo._mongo_db].pinged]]
           ELSE mongo' = [mongo EXCEPT !.call[p].pc = "raised"]
    /\ UNCHANGED <<llmVars, chatVars, svcVars, userVars, calls, mp,
                   onboarding_sessions, onb, login, investment, rec,
                   document>>

\* close_mongo_connection: the client is closed and _mongo_client reset;
\* _mongo_db is not declared global there and keeps its value.
CloseMongoConnection ==
    /\ mongo._mongo_client # 0
    /\ mongo' = [mongo EXCEPT
           !.clients[mongo._mongo_client].open = FALSE,
           !._mongo_client = 0]
    /\ UNCHANGED <<llmVars, chatVars, svcVars, userVars, calls, mp,
                   onboarding_sessions, onb, login, investment, rec,
                   document>>

InitMongo ==
    /\ QuietCore
    /\ login = [pc |-> "idle"] /\ investment = [pc |-> "idle"]
    /\ rec = [pc |-> "idle"] /\ document = [pc |-> "idle"]
    /\ mongo = [pc |-> "run", _mongo_client |-> 0, _mongo_db |-> 0,
                clients |-> <<>>,
                call |-> [p \in 1..MaxCallers |->
                             [pc |-> "idle", fn |-> "", handle |-> 0,
                              open |-> FALSE, pinged |-> FALSE]]]

SpecMongo ==
    /\ InitMongo
    /\ [][\/ \E p \in 1..MaxCallers :
                \E fn \in {"get_database", "connect_to_mongo"} :
                    GetDatabase(p, fn)
          \/ \E p \in 1..MaxCallers : \E ok \in BOOLEAN :
                ConnectToMongoPing(p, ok)
          \/ CloseMongoConnection]_vars

\* ------------------------------------------- properties: later claims
\* C24: a POST /chat one of whose steps after the inbound message was
\* persisted raised (the context query or a write of the reply) ends with
\* 200 and has stored exactly one assistant message, marked as the fallback.
C24_FallbackPersisted ==
    \A r \in Reqs :
        (req[r].pc = "done" /\ req[r].db_failed) =>
            /\ req[r].status = 200
            /\ Cardinality({k \in 1..Len(chat_messages) :
                   /\ chat_messages[k].id.req = r
                   /\ chat_messages[k].role = "assistant"
                   /\ chat_messages[k].metadata = "fallback"}) = 1

\* C29: whenever no delete_conversation is in progress, every stored chat
\* message belongs to a conversation that has not been deleted.
C29_NoMessageOfDeletedConversation ==
    ops.del.pc = "idle" =>
        \A k \in 1..Len(chat_messages) :
            conversations[chat_messages[k].conversation_id].state # "deleted"

\* C26: no step turns the complete flag of an onboarding session from true
\* to false.
C26_CompleteIsFinal ==
    [][\A sid \in SessionIds :
          onboarding_sessions[sid].complete
              => onboarding_sessions'[sid].complete]_vars

\* C22: a registration answered 200 leaves exactly one record for its
\* user_id in the users collection, however often it was repeated.
C22_RepeatedRegistrationOneRecord ==
    \A i \in RegIds :
        (reg[i].pc = "done" /\ reg[i].status = 200) =>
            Cardinality({k \in 1..Len(users) :
                            users[k].user_id = reg[i].user_id}) = 1

\* C21: a login attempt with an unknown user or a wrong password is answered
\* 401, one with a missing username or password 400, and an authentication
\* failure is never answered with a 5xx, in every login endpoint (the
\* database being reachable).
C21_LoginFailureStatus ==
    (login.pc = "done" /\ login.db = "ok") =>
        LET missing == login.username = "" \/ login.password = ""
            refused == /\ ~missing
                       /\ ~(login.username = "known"
                            /\ login.password = "right")
        IN  /\ missing => login.status = 400
            /\ refused => login.status = 401
            /\ (missing \/ refused) => login.status < 500

\* C23: a created Investment record, when fetched by its id, returns amount,
\* current_value and investment type identical to the values it was created
\* with.
C23_InvestmentRoundTrip ==
    investment.pc = "fetched" =>
        /\ investment.status = 201
        /\ investment.fetched.kind # "None"
        /\ investment.fetched.amount = investment.data.amount
        /\ investment.fetched.current_value = investment.data.current_value
        /\ investment.fetched.investment_type = investment.data.investment_type

\* C25: _generate_personalized_recommendations always terminates and returns
\* exactly 3 recommendations, whatever number of recommendations was parsed
\* from the LLM reply and however many relevant products were retrieved.
C25_TerminatesWithThree ==
    <>(rec.pc = "done" /\ Len(rec.result) = 3)

\* C27: a document's processing_status only moves PENDING to PROCESSING and
\* then to COMPLETED or FAILED, and COMPLETED and FAILED are terminal: a
\* document marked COMPLETED is never later marked FAILED.
C27_StatusMovesForward ==
    [][document.pc # "idle" /\ document'.pc # "idle"
       /\ document.processing_status # "absent"
       /\ document'.processing_status # document.processing_status
          => \/ /\ document.processing_status = "pending"
                /\ document'.processing_status = "processing"
             \/ /\ document.processing_status = "processing"
                /\ document'.processing_status \in {"completed", "failed"}]_vars

\* C28: every document accepted by upload_document reaches COMPLETED or
\* FAILED: the background task process_document never finishes leaving the
\* document PENDING or PROCESSING.
C28_FinishedTaskLeavesFinalStatus ==
    document.pc = "finished" =>
        document.processing_status \in {"completed", "failed"}

\* C30: get_database only ever returns a handle bound to an open client whose
\* connection ping succeeded; after close_mongo_connection, or after a
\* connect_to_mongo whose ping failed, the next get_database call either
\* establishes and verifies a fresh connection or raises.
C30_HandleOpenAndVerified ==
    \A p \in 1..MaxCallers :
        (mongo.call[p].pc = "returned" /\ mongo.call[p].fn = "get_database")
            => /\ mongo.call[p].handle # 0
               /\ mongo.call[p].open
               /\ mongo.call[p].pinged

====
